---------------------------- MODULE Spec2Model ----------------------------
(***************************************************************************)
(* A model of the morpheme-embedding program in src/main.rs: the morpheme  *)
(* segmenter, the definition feature extractor, the embedding accumulator  *)
(* and the main loop that folds feature vectors into the accumulator table *)
(* and lists the table in key order.                                       *)
(*                                                                         *)
(* Strings are sequences of characters, each character a string.  An f32   *)
(* value is a pair <<m, e>> standing for m * 2^e, and every f32 operation  *)
(* rounds to nearest, ties to even, on a 24-bit significand.               *)
(***************************************************************************)
EXTENDS Integers, Sequences, FiniteSets, TLC

VARIABLES
  \* segment_into_morphemes
  word, cleaned, working, core, prefix_matches, suffix_matches,
  remainder, roots, segments, pc,
  \* main
  words, cursor, embeddings, used_dictionary_entries, dimensions, sorted, mpc,
  \* one EmbeddingAccumulator under arbitrary calls
  acc, added, last_mean, apc

segVars  == << word, cleaned, working, core, prefix_matches, suffix_matches,
               remainder, roots, segments, pc >>
mainVars == << words, cursor, embeddings, used_dictionary_entries, dimensions,
               sorted, mpc >>
accVars  == << acc, added, last_mean, apc >>
vars     == << segVars, mainVars, accVars >>

----------------------------------------------------------------------------
\* Static tables of the program.

\* DICTIONARY_ENTRIES: (word, definition) pairs, in source order.
DICTIONARY_ENTRIES ==
  << << <<"a","n","t","i","d","i","s","e","s","t","a","b","l","i","s","h","m","e","n","t","a","r","i","a","n","i","s","m">>,
        <<"O","x","f","o","r","d"," ","E","n","g","l","i","s","h"," ","D","i","c","t","i","o","n","a","r","y"," ","(","p","a","r","a","p","h","r","a","s","e","d",")",":"," ","o","p","p","o","s","i","t","i","o","n"," ","t","o"," ","t","h","e"," ","w","i","t","h","d","r","a","w","a","l"," ","o","f"," ","s","t","a","t","e"," ","s","u","p","p","o","r","t"," ","o","r"," ","r","e","c","o","g","n","i","t","i","o","n"," ","f","r","o","m"," ","a","n"," ","e","s","t","a","b","l","i","s","h","e","d"," ","c","h","u","r","c","h",".">> >>,
     << <<"h","y","p","e","r","m","e","t","a","m","o","r","p","h","o","s","i","s">>,
        <<"O","x","f","o","r","d"," ","E","n","g","l","i","s","h"," ","D","i","c","t","i","o","n","a","r","y"," ","(","p","a","r","a","p","h","r","a","s","e","d",")",":"," ","a"," ","k","i","n","d"," ","o","f"," ","i","n","s","e","c","t"," ","d","e","v","e","l","o","p","m","e","n","t"," ","m","a","r","k","e","d"," ","b","y"," ","d","i","s","t","i","n","c","t","l","y"," ","d","i","f","f","e","r","e","n","t"," ","s","u","c","c","e","s","s","i","v","e"," ","l","a","r","v","a","l"," ","s","t","a","g","e","s",".">> >>,
     << <<"b","i","b","l","i","o","k","l","e","p","t">>,
        <<"O","x","f","o","r","d"," ","E","n","g","l","i","s","h"," ","D","i","c","t","i","o","n","a","r","y"," ","(","p","a","r","a","p","h","r","a","s","e","d",")",":"," ","a"," ","p","e","r","s","o","n"," ","w","h","o"," ","s","t","e","a","l","s"," ","b","o","o","k","s",";"," ","a"," ","b","o","o","k"," ","t","h","i","e","f",".">> >>,
     << <<"d","e","f","e","n","e","s","t","r","a","t","i","o","n">>,
        <<"O","x","f","o","r","d"," ","E","n","g","l","i","s","h"," ","D","i","c","t","i","o","n","a","r","y"," ","(","p","a","r","a","p","h","r","a","s","e","d",")",":"," ","t","h","e"," ","a","c","t"," ","o","f"," ","t","h","r","o","w","i","n","g"," ","s","o","m","e","o","n","e"," ","o","r"," ","s","o","m","e","t","h","i","n","g"," ","o","u","t"," ","o","f"," ","a"," ","w","i","n","d","o","w",".">> >>,
     << <<"a","b","s","q","u","a","t","u","l","a","t","e">>,
        <<"O","x","f","o","r","d"," ","E","n","g","l","i","s","h"," ","D","i","c","t","i","o","n","a","r","y"," ","(","p","a","r","a","p","h","r","a","s","e","d",")",":"," ","t","o"," ","d","e","p","a","r","t"," ","a","b","r","u","p","t","l","y",";"," ","t","o"," ","a","b","s","c","o","n","d"," ","w","i","t","h"," ","c","o","m","i","c"," ","h","a","s","t","e",".">> >>,
     << <<"c","a","t","t","y","w","a","m","p","u","s">>,
        <<"O","x","f","o","r","d"," ","E","n","g","l","i","s","h"," ","D","i","c","t","i","o","n","a","r","y"," ","(","p","a","r","a","p","h","r","a","s","e","d",")",":"," ","a","s","k","e","w"," ","o","r"," ","a","w","r","y",";"," ","p","o","s","i","t","i","o","n","e","d"," ","d","i","a","g","o","n","a","l","l","y"," ","i","n"," ","a"," ","d","e","l","i","g","h","t","f","u","l","l","y"," ","u","n","r","u","l","y"," ","f","a","s","h","i","o","n",".">> >>,
     << <<"t","r","a","n","s","m","o","g","r","i","f","i","c","a","t","i","o","n">>,
        <<"O","x","f","o","r","d"," ","E","n","g","l","i","s","h"," ","D","i","c","t","i","o","n","a","r","y"," ","(","p","a","r","a","p","h","r","a","s","e","d",")",":"," ","a"," ","t","r","a","n","s","f","o","r","m","a","t","i","o","n",","," ","e","s","p","e","c","i","a","l","l","y"," ","o","n","e"," ","t","h","a","t"," ","i","s"," ","s","t","a","r","t","l","i","n","g"," ","o","r"," ","m","a","g","i","c","a","l",".">> >>,
     << <<"s","e","s","q","u","i","p","e","d","a","l","i","a","n">>,
        <<"O","x","f","o","r","d"," ","E","n","g","l","i","s","h"," ","D","i","c","t","i","o","n","a","r","y"," ","(","p","a","r","a","p","h","r","a","s","e","d",")",":"," ","c","h","a","r","a","c","t","e","r","i","z","e","d"," ","b","y"," ","o","r"," ","f","o","n","d"," ","o","f"," ","u","s","i","n","g"," ","l","o","n","g"," ","w","o","r","d","s",".">> >>,
     << <<"k","e","r","f","u","f","f","l","e">>,
        <<"O","x","f","o","r","d"," ","E","n","g","l","i","s","h"," ","D","i","c","t","i","o","n","a","r","y"," ","(","p","a","r","a","p","h","r","a","s","e","d",")",":"," ","a"," ","c","o","m","m","o","t","i","o","n"," ","o","r"," ","f","u","s","s",","," ","e","s","p","e","c","i","a","l","l","y"," ","o","n","e"," ","c","a","u","s","e","d"," ","b","y"," ","c","o","n","f","l","i","c","t","i","n","g"," ","o","p","i","n","i","o","n","s",".">> >> >>

\* PREFIXES with an empty literal in front.
PREFIXES_WithEmptyEntry ==
  << << >>,
     <<"h","y","p","e","r">>,
     <<"t","r","a","n","s">>,
     <<"i","n","t","e","r">>,
     <<"s","e","s","q","u","i">>,
     <<"a","n","t","i">>,
     <<"a","b">>,
     <<"d","e">>,
     <<"d","i","s">>,
     <<"u","l","t","r","a">>,
     <<"p","s","e","u","d","o">>,
     <<"s","u","p","e","r">> >>

\* PREFIXES: ordered prefix literals (first match wins).
PREFIXES ==
  << <<"h","y","p","e","r">>,
     <<"t","r","a","n","s">>,
     <<"i","n","t","e","r">>,
     <<"s","e","s","q","u","i">>,
     <<"a","n","t","i">>,
     <<"a","b">>,
     <<"d","e">>,
     <<"d","i","s">>,
     <<"u","l","t","r","a">>,
     <<"p","s","e","u","d","o">>,
     <<"s","u","p","e","r">> >>

\* SUFFIXES: ordered suffix literals (first match wins).
SUFFIXES ==
  << <<"a","r","i","a","n","i","s","m">>,
     <<"i","f","i","c","a","t","i","o","n">>,
     <<"m","o","g","r","i","f","i","c","a","t","i","o","n">>,
     <<"u","l","a","t","i","o","n">>,
     <<"a","r","i","a","n">>,
     <<"a","t","i","o","n">>,
     <<"m","e","n","t","a","t","i","o","n">>,
     <<"i","a","s","i","s">>,
     <<"i","o","s","i","s">>,
     <<"o","s","i","s">>,
     <<"u","l","a","t","e">>,
     <<"i","c","i","s","m">>,
     <<"i","s","m">>,
     <<"i","o","u","s">>,
     <<"i","a","n">>,
     <<"n","e","s","s">>,
     <<"m","e","n","t">> >>

\* ROOT_PATTERNS: ordered root literals (first match wins).
ROOT_PATTERNS ==
  << <<"a","n","t","i","d","i","s","e","s","t","a","b","l","i","s","h">>,
     <<"e","s","t","a","b","l","i","s","h">>,
     <<"t","r","a","n","s","m","o","g","r">>,
     <<"c","a","t","t","y","w","a","m","p","u","s">>,
     <<"s","e","s","q","u","i","p","e","d">>,
     <<"b","i","b","l","i","o">>,
     <<"b","i","b","l","i">>,
     <<"h","y","p","e","r">>,
     <<"m","o","g","r">>,
     <<"m","e","t","a">>,
     <<"m","o","r","p","h">>,
     <<"k","l","e","p","t">>,
     <<"f","e","n","e","s","t","r">>,
     <<"s","q","u","a","t">>,
     <<"w","a","m","p","u","s">>,
     <<"p","e","d","a","l">>,
     <<"p","e","d">>,
     <<"k","e","r","f","u","f","f","l","e">>,
     <<"f","i","c">>,
     <<"r","u","f","f","l","e">>,
     <<"f","u","f","f","l","e">> >>

\* SENSORY_KEYWORDS: sensory vocabulary.
SENSORY_KEYWORDS ==
  << <<"l","i","g","h","t">>,
     <<"b","r","i","g","h","t">>,
     <<"g","l","o","w">>,
     <<"s","o","u","n","d">>,
     <<"t","o","n","e">>,
     <<"t","a","s","t","e">>,
     <<"t","o","u","c","h">>,
     <<"s","m","e","l","l">>,
     <<"c","o","l","o","u","r">>,
     <<"c","o","l","o","r">>,
     <<"h","e","a","r">>,
     <<"s","e","e">> >>

\* ABSTRACT_KEYWORDS: abstract vocabulary.
ABSTRACT_KEYWORDS ==
  << <<"s","t","a","t","e">>,
     <<"q","u","a","l","i","t","y">>,
     <<"a","b","i","l","i","t","y">>,
     <<"c","a","p","a","c","i","t","y">>,
     <<"p","r","o","c","e","s","s">>,
     <<"c","o","n","d","i","t","i","o","n">>,
     <<"p","o","w","e","r">>,
     <<"t","o","u","g","h","n","e","s","s">>,
     <<"r","e","c","o","v","e","r","y">>,
     <<"c","h","a","n","g","e">>,
     <<"t","i","m","e">>,
     <<"a","c","t","i","o","n">> >>
----------------------------------------------------------------------------
\* Characters.

LowerLetters ==
  << "a","b","c","d","e","f","g","h","i","j","k","l","m",
     "n","o","p","q","r","s","t","u","v","w","x","y","z" >>

UpperLetters ==
  << "A","B","C","D","E","F","G","H","I","J","K","L","M",
     "N","O","P","Q","R","S","T","U","V","W","X","Y","Z" >>

\* A character is a string: an ASCII character stands for itself, and a
\* character outside ASCII (and the vertical tab) is written by its code
\* point, as "U+00A0".

\* char::is_whitespace, which str::trim removes: the characters with the
\* Unicode White_Space property.
Whitespace ==
  { "\t", "\n", "U+000B", "\f", "\r", " ", "U+0085", "U+00A0", "U+1680",
    "U+2000", "U+2001", "U+2002", "U+2003", "U+2004", "U+2005", "U+2006",
    "U+2007", "U+2008", "U+2009", "U+200A", "U+2028", "U+2029", "U+202F",
    "U+205F", "U+3000" }

Range(s) == { s[i] : i \in DOMAIN s }

IndexOf(s, c) == CHOOSE i \in DOMAIN s : s[i] = c

\* char::is_ascii_alphabetic
is_ascii_alphabetic(c) == c \in Range(LowerLetters) \cup Range(UpperLetters)

\* char::to_ascii_lowercase
to_ascii_lowercase(c) ==
  IF c \in Range(UpperLetters) THEN LowerLetters[IndexOf(UpperLetters, c)] ELSE c

\* The byte value of an ASCII letter, which orders String comparison.
ByteOf(c) ==
  IF c \in Range(LowerLetters) THEN 96 + IndexOf(LowerLetters, c)
  ELSE IF c \in Range(UpperLetters) THEN 64 + IndexOf(UpperLetters, c)
  ELSE 0

\* str::starts_with
StartsWith(s, p) == Len(p) <= Len(s) /\ SubSeq(s, 1, Len(p)) = p

\* str::ends_with
EndsWith(s, p) == Len(p) <= Len(s) /\ SubSeq(s, Len(s) - Len(p) + 1, Len(s)) = p

Min(a, b) == IF a <= b THEN a ELSE b

Reverse(s) == [ i \in DOMAIN s |-> s[Len(s) + 1 - i] ]

----------------------------------------------------------------------------
\* Morphemes.

MorphemeKind == { "Prefix", "Root", "Suffix" }

\* Morpheme::new
Morpheme(kind, text) == [ kind |-> kind, text |-> text ]

\* The filter/map/collect that cleans the word.
RECURSIVE Clean(_)
Clean(w) ==
  IF w = << >> THEN << >>
  ELSE IF is_ascii_alphabetic(Head(w))
       THEN << to_ascii_lowercase(Head(w)) >> \o Clean(Tail(w))
       ELSE Clean(Tail(w))

\* PREFIXES.iter().find(|candidate| working.starts_with(candidate)): the index
\* of the first matching entry, or 0 for None.
PrefixFind(w) ==
  IF \E i \in DOMAIN PREFIXES : StartsWith(w, PREFIXES[i])
  THEN CHOOSE i \in DOMAIN PREFIXES :
         /\ StartsWith(w, PREFIXES[i])
         /\ \A j \in 1..(i - 1) : ~StartsWith(w, PREFIXES[j])
  ELSE 0

\* SuffixFind taking the longest matching entry instead of the first.
SuffixFindLongest(c) ==
  IF \E i \in DOMAIN SUFFIXES : EndsWith(c, SUFFIXES[i])
  THEN CHOOSE i \in DOMAIN SUFFIXES :
         /\ EndsWith(c, SUFFIXES[i])
         /\ \A j \in DOMAIN SUFFIXES :
              EndsWith(c, SUFFIXES[j]) => Len(SUFFIXES[j]) <= Len(SUFFIXES[i])
  ELSE 0

\* SUFFIXES.iter().find(|candidate| core.ends_with(candidate))
SuffixFind(c) ==
  IF \E i \in DOMAIN SUFFIXES : EndsWith(c, SUFFIXES[i])
  THEN CHOOSE i \in DOMAIN SUFFIXES :
         /\ EndsWith(c, SUFFIXES[i])
         /\ \A j \in 1..(i - 1) : ~EndsWith(c, SUFFIXES[j])
  ELSE 0

\* ROOT_PATTERNS.iter().find(|candidate| remainder.starts_with(candidate))
RootFind(rem) ==
  IF \E i \in DOMAIN ROOT_PATTERNS : StartsWith(rem, ROOT_PATTERNS[i])
  THEN CHOOSE i \in DOMAIN ROOT_PATTERNS :
         /\ StartsWith(rem, ROOT_PATTERNS[i])
         /\ \A j \in 1..(i - 1) : ~StartsWith(rem, ROOT_PATTERNS[j])
  ELSE 0

\* PrefixIter with the guard off by one: a prefix equal to the whole
\* remaining string is stripped.
PrefixIterOffByOne(pm, w) ==
  LET i == PrefixFind(w) IN
  IF i # 0
  THEN LET prefix == PREFIXES[i] IN
       IF Len(prefix) > Len(w)
       THEN [ brk |-> TRUE, prefix_matches |-> pm, working |-> w ]
       ELSE [ brk |-> FALSE,
              prefix_matches |-> Append(pm, prefix),
              working |-> SubSeq(w, Len(prefix) + 1, Len(w)) ]
  ELSE [ brk |-> TRUE, prefix_matches |-> pm, working |-> w ]

\* One iteration of the prefix loop.
PrefixIter(pm, w) ==
  LET i == PrefixFind(w) IN
  IF i # 0
  THEN LET prefix == PREFIXES[i] IN
       IF Len(prefix) >= Len(w)
       THEN [ brk |-> TRUE, prefix_matches |-> pm, working |-> w ]
       ELSE [ brk |-> FALSE,
              prefix_matches |-> Append(pm, prefix),
              working |-> SubSeq(w, Len(prefix) + 1, Len(w)) ]
  ELSE [ brk |-> TRUE, prefix_matches |-> pm, working |-> w ]

\* One iteration of the suffix loop.
SuffixIter(sm, c) ==
  LET i == SuffixFind(c) IN
  IF i # 0
  THEN LET suffix == SUFFIXES[i] IN
       IF Len(suffix) >= Len(c)
       THEN [ brk |-> TRUE, suffix_matches |-> sm, core |-> c ]
       ELSE [ brk |-> FALSE,
              suffix_matches |-> Append(sm, suffix),
              core |-> SubSeq(c, 1, Len(c) - Len(suffix)) ]
  ELSE [ brk |-> TRUE, suffix_matches |-> sm, core |-> c ]

\* The length at or below which an unmatched remainder is one final root.
ShortRemainder == 4

\* The length of a fallback chunk.
ChunkStep == 4

\* RootIter with fallback chunks one character short.
RootIterShortChunk(rs, rem) ==
  LET i == RootFind(rem) IN
  IF i # 0
  THEN LET slice == ROOT_PATTERNS[i]
           len == Len(slice) IN
       IF len = 0
       THEN [ brk |-> TRUE, roots |-> rs, remainder |-> rem ]
       ELSE [ brk |-> FALSE,
              roots |-> Append(rs, Morpheme("Root", slice)),
              remainder |-> SubSeq(rem, len + 1, Len(rem)) ]
  ELSE IF Len(rem) <= ShortRemainder
       THEN [ brk |-> TRUE,
              roots |-> Append(rs, Morpheme("Root", rem)),
              remainder |-> rem ]
       ELSE LET step == Min(ChunkStep - 1, Len(rem)) IN
            [ brk |-> FALSE,
              roots |-> Append(rs, Morpheme("Root", SubSeq(rem, 1, step))),
              remainder |-> SubSeq(rem, step + 1, Len(rem)) ]

\* One iteration of the body of the while loop of decompose_root_segments
\* (entered with a nonempty remainder).
RootIter(rs, rem) ==
  LET i == RootFind(rem) IN
  IF i # 0
  THEN LET slice == ROOT_PATTERNS[i]
           len == Len(slice) IN
       IF len = 0
       THEN [ brk |-> TRUE, roots |-> rs, remainder |-> rem ]
       ELSE [ brk |-> FALSE,
              roots |-> Append(rs, Morpheme("Root", slice)),
              remainder |-> SubSeq(rem, len + 1, Len(rem)) ]
  ELSE IF Len(rem) <= ShortRemainder
       THEN [ brk |-> TRUE,
              roots |-> Append(rs, Morpheme("Root", rem)),
              remainder |-> rem ]
       ELSE LET step == Min(ChunkStep, Len(rem)) IN
            [ brk |-> FALSE,
              roots |-> Append(rs, Morpheme("Root", SubSeq(rem, 1, step))),
              remainder |-> SubSeq(rem, step + 1, Len(rem)) ]

RECURSIVE PrefixLoop(_, _)
PrefixLoop(pm, w) ==
  LET r == PrefixIter(pm, w) IN
  IF r.brk THEN r ELSE PrefixLoop(r.prefix_matches, r.working)

RECURSIVE SuffixLoop(_, _)
SuffixLoop(sm, c) ==
  LET r == SuffixIter(sm, c) IN
  IF r.brk THEN r ELSE SuffixLoop(r.suffix_matches, r.core)

RECURSIVE RootLoop(_, _)
RootLoop(rs, rem) ==
  IF rem = << >> THEN rs
  ELSE LET r == RootIter(rs, rem) IN
       IF r.brk THEN r.roots ELSE RootLoop(r.roots, r.remainder)

decompose_root_segments(c) ==
  IF c = << >> THEN << >> ELSE RootLoop(<< >>, c)

\* Assemble without the append of the root segments.
AssembleNoRoots(pm, sm, c, cl, root_segments) ==
  LET rev == Reverse(sm)
  IN  [ i \in DOMAIN pm |-> Morpheme("Prefix", pm[i]) ]
      \o [ i \in DOMAIN rev |-> Morpheme("Suffix", rev[i]) ]

\* Assemble without the reversal of the suffix matches.
AssembleNoReverse(pm, sm, c, cl, root_segments) ==
  LET rootsOut ==
        IF root_segments = << >>
        THEN IF c # << >>
             THEN << Morpheme("Root", c) >>
             ELSE << Morpheme("Root", cl) >>
        ELSE root_segments
  IN  [ i \in DOMAIN pm |-> Morpheme("Prefix", pm[i]) ]
      \o rootsOut
      \o [ i \in DOMAIN sm |-> Morpheme("Suffix", sm[i]) ]

\* The assembly of the result from the three stages.
Assemble(pm, sm, c, cl, root_segments) ==
  LET rootsOut ==
        IF root_segments = << >>
        THEN IF c # << >>
             THEN << Morpheme("Root", c) >>
             ELSE << Morpheme("Root", cl) >>
        ELSE root_segments
      rev == Reverse(sm)
  IN  [ i \in DOMAIN pm |-> Morpheme("Prefix", pm[i]) ]
      \o rootsOut
      \o [ i \in DOMAIN rev |-> Morpheme("Suffix", rev[i]) ]

segment_into_morphemes(w) ==
  LET cl == Clean(w) IN
  IF cl = << >> THEN << >>
  ELSE LET p == PrefixLoop(<< >>, cl)
           s == SuffixLoop(<< >>, p.working)
       IN  Assemble(p.prefix_matches, s.suffix_matches, s.core, cl,
                    decompose_root_segments(s.core))

----------------------------------------------------------------------------
\* f32 values.  << m, e >> stands for the binary32 value m * 2^e, with m odd
\* and below 2^24 in magnitude; zero is << 0, 0 >>.  Every operation rounds
\* to nearest, ties to even, as the hardware does.  The values of the program
\* are counts, ratios of counts and sums of those, so the exponent range,
\* infinities, NaN and the sign of zero are left out; a divisor is never zero
\* (word_count is at least 1 past line 338, count at least 1 past line 455).
\* Intermediate integers stay below 2^31.

Abs(n) == IF n < 0 THEN -n ELSE n

Sign(n) == IF n < 0 THEN -1 ELSE 1

\* Number of bits of a natural number.
RECURSIVE BitLen(_)
BitLen(n) == IF n = 0 THEN 0 ELSE 1 + BitLen(n \div 2)

\* The representation of m * 2^e: odd m, or << 0, 0 >>.
RECURSIVE Canon(_, _)
Canon(m, e) ==
  IF m = 0 THEN << 0, 0 >>
  ELSE IF m % 2 = 0 THEN Canon(m \div 2, e + 1)
  ELSE << m, e >>

Zero == << 0, 0 >>

One == << 1, 0 >>

\* Round-to-nearest, ties-to-even, to the 24-bit significand of an f32.
\* The exact value is sign * (s + t) * 2^e with 0 < t < 1 when sticky holds
\* and t = 0 otherwise.
F32Round(sign, s, sticky, e) ==
  LET k == BitLen(s) - 24 IN
  IF k <= 0 THEN Canon(sign * s, e)
  ELSE LET q == s \div (2 ^ k)
           r == s % (2 ^ k)
           half == 2 ^ (k - 1)
           up == r > half \/ (r = half /\ (sticky \/ q % 2 = 1))
       IN  Canon(sign * (IF up THEN q + 1 ELSE q), e + k)

\* The significand of a nonzero f32 as a 24-bit number, and the exponent
\* that goes with it.
NormM(x) == Abs(x[1]) * 2 ^ (24 - BitLen(Abs(x[1])))

NormE(x) == x[2] - (24 - BitLen(Abs(x[1])))

\* Negation, exact.
f32_neg(x) == << -x[1], x[2] >>

\* f32 addition (+=).  Operands whose exponents are close are added exactly
\* and rounded; otherwise the smaller one is shifted right against three
\* extra bits of the larger, what is shifted out being kept as inexact.
f32_add(x, y) ==
  IF x[1] = 0 THEN y
  ELSE IF y[1] = 0 THEN x
  ELSE LET a == IF NormE(x) >= NormE(y) THEN x ELSE y
           b == IF NormE(x) >= NormE(y) THEN y ELSE x
           d == NormE(a) - NormE(b)
       IN  IF d <= 5
           THEN LET n == Sign(a[1]) * NormM(a) * 2 ^ d + Sign(b[1]) * NormM(b)
                IN  F32Round(Sign(n), Abs(n), FALSE, NormE(b))
           ELSE LET a8 == NormM(a) * 8
                    b8 == NormM(b) * 8
                    shifted == IF d > 27 THEN 0 ELSE b8 \div (2 ^ d)
                    inexact == IF d > 27 THEN TRUE ELSE b8 % (2 ^ d) # 0
                    s == IF Sign(a[1]) = Sign(b[1]) THEN a8 + shifted
                         ELSE IF inexact THEN a8 - shifted - 1
                         ELSE a8 - shifted
                IN  F32Round(Sign(a[1]), s, inexact, NormE(a) - 3)

\* Binary long division: n more quotient bits of r / d appended to q.
RECURSIVE LongDiv(_, _, _, _)
LongDiv(r, d, q, n) ==
  IF n = 0 THEN << q, r >>
  ELSE IF 2 * r >= d THEN LongDiv(2 * r - d, d, 2 * q + 1, n - 1)
  ELSE LongDiv(2 * r, d, 2 * q, n - 1)

\* f32 division (/): 26 quotient bits past the leading one and the
\* remainder decide the rounding.
f32_div(x, y) ==
  IF x[1] = 0 THEN Zero
  ELSE LET qr == LongDiv(NormM(x) % NormM(y), NormM(y),
                         NormM(x) \div NormM(y), 26)
       IN  F32Round(Sign(x[1]) * Sign(y[1]), qr[1], qr[2] # 0,
                    NormE(x) - NormE(y) - 26)

\* f32::max
f32_max(x, y) == IF f32_add(x, f32_neg(y))[1] >= 0 THEN x ELSE y

\* usize as f32
f32_from_usize(n) == F32Round(1, n, FALSE, 0)

----------------------------------------------------------------------------
\* The feature extractor.

\* definition.split(|c| !c.is_ascii_alphabetic()).filter(nonempty)
\*   .map(to_ascii_lowercase): the maximal runs of letters, in order.
TokenStarts(s) ==
  { i \in DOMAIN s :
      is_ascii_alphabetic(s[i]) /\ (i = 1 \/ ~is_ascii_alphabetic(s[i - 1])) }

TokenEnd(s, i) ==
  CHOOSE j \in i..Len(s) :
    /\ \A k \in i..j : is_ascii_alphabetic(s[k])
    /\ (j = Len(s) \/ ~is_ascii_alphabetic(s[j + 1]))

Tokens(s) ==
  LET starts == TokenStarts(s)
      nth(k) == CHOOSE i \in starts : Cardinality({ x \in starts : x < i }) = k - 1
  IN  [ k \in 1..Cardinality(starts) |->
          LET t == SubSeq(s, nth(k), TokenEnd(s, nth(k))) IN
          [ i \in DOMAIN t |-> to_ascii_lowercase(t[i]) ] ]

RECURSIVE SumLen(_)
SumLen(tokens) ==
  IF tokens = << >> THEN 0 ELSE Len(Head(tokens)) + SumLen(Tail(tokens))

CountIn(tokens, S) == Cardinality({ i \in DOMAIN tokens : tokens[i] \in S })

\* The token length from which a token counts as multi-syllable.
LongToken == 7

\* The dimension of a feature vector.
FeatureDim == 5

definition_to_features(definition) ==
  LET tokens == Tokens(definition) IN
  IF tokens = << >> THEN [ i \in 1..FeatureDim |-> Zero ]
  ELSE LET word_count == f32_from_usize(Len(tokens))
           total_chars == SumLen(tokens)
           avg_word_length == f32_div(f32_from_usize(total_chars), word_count)
           sensory_hits ==
             f32_from_usize(CountIn(tokens, Range(SENSORY_KEYWORDS)))
           abstract_hits ==
             f32_from_usize(CountIn(tokens, Range(ABSTRACT_KEYWORDS)))
           unique_tokens == f32_from_usize(Cardinality(Range(tokens)))
           multi_syllable_estimate ==
             f32_from_usize(Cardinality({ i \in DOMAIN tokens :
                                            Len(tokens[i]) >= LongToken }))
       IN  << word_count,
              avg_word_length,
              f32_div(sensory_hits, word_count),
              f32_div(abstract_hits, word_count),
              f32_add(f32_div(unique_tokens, f32_max(word_count, One)),
                      f32_div(multi_syllable_estimate, word_count)) >>

----------------------------------------------------------------------------
\* The embedding accumulator.

\* EmbeddingAccumulator::new
EmbeddingAccumulator_new(dims) ==
  [ sum |-> [ i \in 1..dims |-> Zero ], count |-> 0 ]

\* Vec::resize(n, 0.0): truncates or pads with zeros.
Resize(v, n) == [ i \in 1..n |-> IF i <= Len(v) THEN v[i] ELSE Zero ]

\* EmbeddingAccumulator::add
add(self, vector) ==
  LET s == IF Len(self.sum) # Len(vector) THEN Resize(self.sum, Len(vector))
           ELSE self.sum
  IN  [ sum |-> [ i \in DOMAIN s |->
                    IF i <= Len(vector) THEN f32_add(s[i], vector[i]) ELSE s[i] ],
        count |-> self.count + 1 ]

\* mean dividing by the dimension instead of the count.
meanByDimension(self) ==
  IF self.count = 0 THEN [ i \in DOMAIN self.sum |-> Zero ]
  ELSE LET scale == f32_from_usize(Len(self.sum)) IN
       [ i \in DOMAIN self.sum |-> f32_div(self.sum[i], scale) ]

\* EmbeddingAccumulator::mean
mean(self) ==
  IF self.count = 0 THEN [ i \in DOMAIN self.sum |-> Zero ]
  ELSE LET scale == f32_from_usize(self.count) IN
       [ i \in DOMAIN self.sum |-> f32_div(self.sum[i], scale) ]

----------------------------------------------------------------------------
\* Morpheme keys and their order.

\* impl From<&Morpheme> for MorphemeKey
MorphemeKeyFrom(morpheme) == [ kind |-> morpheme.kind, text |-> morpheme.text ]

\* The derived Ord of MorphemeKind: the declaration order of the variants.
KindRank(kind) ==
  CASE kind = "Prefix" -> 0
    [] kind = "Root"   -> 1
    [] kind = "Suffix" -> 2

\* String::cmp: lexicographic on bytes; -1 Less, 0 Equal, 1 Greater.
RECURSIVE TextCmp(_, _)
TextCmp(a, b) ==
  IF a = << >> THEN (IF b = << >> THEN 0 ELSE -1)
  ELSE IF b = << >> THEN 1
  ELSE IF ByteOf(Head(a)) < ByteOf(Head(b)) THEN -1
  ELSE IF ByteOf(Head(a)) > ByteOf(Head(b)) THEN 1
  ELSE TextCmp(Tail(a), Tail(b))

\* KeyCmp as derived with the fields declared in the other order: text, then
\* kind.
KeyCmpTextFirst(a, b) ==
  IF TextCmp(a.text, b.text) # 0 THEN TextCmp(a.text, b.text)
  ELSE IF KindRank(a.kind) < KindRank(b.kind) THEN -1
  ELSE IF KindRank(a.kind) > KindRank(b.kind) THEN 1
  ELSE 0

\* The derived Ord of MorphemeKey: kind, then text.
KeyCmp(a, b) ==
  IF KindRank(a.kind) < KindRank(b.kind) THEN -1
  ELSE IF KindRank(a.kind) > KindRank(b.kind) THEN 1
  ELSE TextCmp(a.text, b.text)

\* sort_by(|a, b| a.0.cmp(&b.0)): a stable sort of (key, mean) pairs, as
\* insertion of each element after the elements not greater than it.
RECURSIVE InsertByKey(_, _)
InsertByKey(s, x) ==
  IF s = << >> THEN << x >>
  ELSE IF KeyCmp(x[1], Head(s)[1]) < 0 THEN << x >> \o s
  ELSE << Head(s) >> \o InsertByKey(Tail(s), x)

RECURSIVE SortByKey(_)
SortByKey(s) ==
  IF s = << >> THEN << >>
  ELSE InsertByKey(SortByKey(SubSeq(s, 1, Len(s) - 1)), s[Len(s)])

\* The orders in which a HashMap may yield the keys in S.
RECURSIVE IterationOrders(_)
IterationOrders(S) ==
  IF S = {} THEN { << >> }
  ELSE UNION { { << k >> \o rest : rest \in IterationOrders(S \ {k}) } : k \in S }

----------------------------------------------------------------------------
\* main.

\* str::trim
RECURSIVE TrimStart(_)
TrimStart(s) ==
  IF s # << >> /\ Head(s) \in Whitespace THEN TrimStart(Tail(s)) ELSE s

Trim(s) == Reverse(TrimStart(Reverse(TrimStart(s))))

\* The Unicode lowercase mapping of one character, as str::to_lowercase
\* applies it.  Outside ASCII the model's alphabet has the capitals KELVIN
\* SIGN (whose lowercase is the ASCII k), LATIN CAPITAL LETTER I WITH DOT
\* ABOVE (whose lowercase is two characters), ANGSTROM SIGN and LATIN
\* CAPITAL LETTER E WITH ACUTE; every other character of the alphabet is
\* its own lowercase.
LowercaseOf(c) ==
  IF c \in Range(UpperLetters) THEN << LowerLetters[IndexOf(UpperLetters, c)] >>
  ELSE IF c = "U+212A" THEN << "k" >>
  ELSE IF c = "U+0130" THEN << "i", "U+0307" >>
  ELSE IF c = "U+212B" THEN << "U+00E5" >>
  ELSE IF c = "U+00C9" THEN << "U+00E9" >>
  ELSE << c >>

\* str::to_lowercase
RECURSIVE to_lowercase(_)
to_lowercase(s) ==
  IF s = << >> THEN << >> ELSE LowercaseOf(Head(s)) \o to_lowercase(Tail(s))

\* word.trim().to_lowercase()
Canonical(w) == to_lowercase(Trim(w))

\* build_dictionary and BTreeMap::get: << definition >> for Some, << >> for None.
dictionary_get(w) ==
  IF \E i \in DOMAIN DICTIONARY_ENTRIES : DICTIONARY_ENTRIES[i][1] = w
  THEN << DICTIONARY_ENTRIES[CHOOSE i \in DOMAIN DICTIONARY_ENTRIES :
                               DICTIONARY_ENTRIES[i][1] = w][2] >>
  ELSE << >>

\* FoldMorphemes inserting a new accumulator also for a key already present.
RECURSIVE FoldMorphemesInsert(_, _, _)
FoldMorphemesInsert(emb, morphemes, features) ==
  IF morphemes = << >> THEN emb
  ELSE LET key == MorphemeKeyFrom(Head(morphemes))
           entry == EmbeddingAccumulator_new(Len(features))
           next == [ k \in DOMAIN emb \cup {key} |->
                       IF k = key THEN add(entry, features) ELSE emb[k] ]
       IN  FoldMorphemesInsert(next, Tail(morphemes), features)

\* The loop over the morphemes of one word: entry(key).or_insert_with(new)
\* followed by add.
RECURSIVE FoldMorphemes(_, _, _)
FoldMorphemes(emb, morphemes, features) ==
  IF morphemes = << >> THEN emb
  ELSE LET key == MorphemeKeyFrom(Head(morphemes))
           entry == IF key \in DOMAIN emb THEN emb[key]
                    ELSE EmbeddingAccumulator_new(Len(features))
           next == [ k \in DOMAIN emb \cup {key} |->
                       IF k = key THEN add(entry, features) ELSE emb[k] ]
       IN  FoldMorphemes(next, Tail(morphemes), features)

----------------------------------------------------------------------------
\* Bounds and inputs.

\* The most pieces concatenated into an input word of the segmenter.
MaxPieces == 3

\* The most lines of an input word list of main.
MaxWords == 3

\* The largest dimension of a vector given to an accumulator.
MaxDim == 2

\* The most vectors added to an accumulator.
MaxAdds == 3

\* Pieces of the input words of the segmenter: table entries that overlap
\* one another, unmatched material, an upper-case letter and a non-letter.
Pieces ==
  { <<"a","n","t","i">>, <<"d","e">>,
    <<"a","r","i","a","n","i","s","m">>, <<"i","s","m">>,
    <<"m","e","n","t">>, <<"a","t","i","o","n">>,
    <<"p","e","d">>, <<"k","l","u","t","z">>, <<"Q">>, <<"-">> }

RECURSIVE PieceWords(_)
PieceWords(n) ==
  IF n = 0 THEN { << >> }
  ELSE LET shorter == PieceWords(n - 1) IN
       shorter \cup { w \o p : w \in shorter, p \in Pieces }

DictionaryWords == { DICTIONARY_ENTRIES[i][1] : i \in DOMAIN DICTIONARY_ENTRIES }

SegWords == PieceWords(MaxPieces) \cup DictionaryWords

\* Lines of the input word lists of main: dictionary words, one of them
\* between a form feed and a no-break space and spelt with the KELVIN SIGN,
\* one between a space and a tab with an ASCII capital, a word with no
\* dictionary entry, and a blank line.
OrchWords ==
  { <<"\f","U+212A","e","r","f","u","f","f","l","e","U+00A0">>,
    <<" ","B","i","b","l","i","o","k","l","e","p","t","\t">>,
    <<"d","e","f","e","n","e","s","t","r","a","t","i","o","n">>,
    <<"f","u","f","f","l","e">>,
    <<" "," ">> }

RECURSIVE SeqsUpTo(_, _)
SeqsUpTo(S, n) ==
  IF n = 0 THEN { << >> }
  ELSE LET shorter == SeqsUpTo(S, n - 1) IN
       shorter \cup { Append(s, x) : s \in shorter, x \in S }

\* Components of the vectors given to an accumulator: 1.0 and the f32
\* nearest to one third, whose sums and means need rounding.
Values == { << 1, 0 >>, << 11184811, -25 >> }

Vectors == UNION { [ 1..d -> Values ] : d \in 0..MaxDim }

NoEmbeddings == [ k \in {} |-> EmbeddingAccumulator_new(0) ]

----------------------------------------------------------------------------
\* The segmenter, one loop iteration per step.

SegIdle ==
  /\ word = << >> /\ cleaned = << >> /\ working = << >> /\ core = << >>
  /\ prefix_matches = << >> /\ suffix_matches = << >>
  /\ remainder = << >> /\ roots = << >> /\ segments = << >>
  /\ pc = "idle"

MainIdle ==
  /\ words = << >> /\ cursor = 0 /\ embeddings = NoEmbeddings
  /\ used_dictionary_entries = 0 /\ dimensions = << >> /\ sorted = << >>
  /\ mpc = "idle"

AccIdle ==
  /\ acc = EmbeddingAccumulator_new(0) /\ added = << >> /\ last_mean = << >>
  /\ apc = "idle"

SegInit ==
  /\ word \in SegWords
  /\ cleaned = << >> /\ working = << >> /\ core = << >>
  /\ prefix_matches = << >> /\ suffix_matches = << >>
  /\ remainder = << >> /\ roots = << >> /\ segments = << >>
  /\ pc = "clean"
  /\ MainIdle /\ AccIdle

\* Cleaning and the early return on an empty cleaned word.
SegClean ==
  /\ pc = "clean"
  /\ cleaned' = Clean(word)
  /\ IF cleaned' = << >>
     THEN /\ pc' = "done"
          /\ UNCHANGED working
     ELSE /\ pc' = "prefix"
          /\ working' = cleaned'
  /\ UNCHANGED << word, core, prefix_matches, suffix_matches, remainder, roots,
                  segments, mainVars, accVars >>

SegPrefix ==
  /\ pc = "prefix"
  /\ LET r == PrefixIter(prefix_matches, working) IN
       /\ prefix_matches' = r.prefix_matches
       /\ working' = r.working
       /\ IF r.brk
          THEN pc' = "suffix" /\ core' = r.working
          ELSE UNCHANGED << pc, core >>
  /\ UNCHANGED << word, cleaned, suffix_matches, remainder, roots, segments,
                  mainVars, accVars >>

SegSuffix ==
  /\ pc = "suffix"
  /\ LET r == SuffixIter(suffix_matches, core) IN
       /\ suffix_matches' = r.suffix_matches
       /\ core' = r.core
       /\ IF r.brk
          THEN pc' = "roots" /\ remainder' = r.core
          ELSE UNCHANGED << pc, remainder >>
  /\ UNCHANGED << word, cleaned, working, prefix_matches, roots, segments,
                  mainVars, accVars >>

\* decompose_root_segments: the test of the while loop and one iteration.
SegRoot ==
  /\ pc = "roots"
  /\ IF remainder = << >>
     THEN pc' = "assemble" /\ UNCHANGED << roots, remainder >>
     ELSE LET r == RootIter(roots, remainder) IN
            /\ roots' = r.roots
            /\ remainder' = r.remainder
            /\ pc' = IF r.brk THEN "assemble" ELSE "roots"
  /\ UNCHANGED << word, cleaned, working, core, prefix_matches, suffix_matches,
                  segments, mainVars, accVars >>

SegAssemble ==
  /\ pc = "assemble"
  /\ segments' = Assemble(prefix_matches, suffix_matches, core, cleaned, roots)
  /\ pc' = "done"
  /\ UNCHANGED << word, cleaned, working, core, prefix_matches, suffix_matches,
                  remainder, roots, mainVars, accVars >>

SegNext == SegClean \/ SegPrefix \/ SegSuffix \/ SegRoot \/ SegAssemble

SegSpec == SegInit /\ [][SegNext]_vars

\* The segmenter is sequential code: a step that can be taken is taken.
SegFairSpec == SegSpec /\ WF_vars(SegNext)

----------------------------------------------------------------------------
\* main: the loop over the word list and the final listing.

MainInit ==
  /\ words \in SeqsUpTo(OrchWords, MaxWords)
  /\ cursor = 0
  /\ embeddings = NoEmbeddings
  /\ used_dictionary_entries = 0
  /\ dimensions = << >>
  /\ sorted = << >>
  /\ mpc = "start"
  /\ SegIdle /\ AccIdle

\* The early return on an empty word list.
MainStart ==
  /\ mpc = "start"
  /\ mpc' = IF words = << >> THEN "exit" ELSE "loop"
  /\ UNCHANGED << words, cursor, embeddings, used_dictionary_entries,
                  dimensions, sorted, segVars, accVars >>

\* One iteration of the loop over words.
MainWord ==
  /\ mpc = "loop"
  /\ cursor < Len(words)
  /\ cursor' = cursor + 1
  /\ LET canonical == Canonical(words[cursor + 1])
         found == dictionary_get(canonical)
     IN  IF canonical = << >> \/ found = << >>
         THEN UNCHANGED << embeddings, used_dictionary_entries, dimensions >>
         ELSE LET definition == found[1]
                  morphemes == segment_into_morphemes(canonical)
              IN  /\ used_dictionary_entries' = used_dictionary_entries + 1
                  /\ IF morphemes = << >>
                     THEN UNCHANGED << embeddings, dimensions >>
                     ELSE LET features == definition_to_features(definition) IN
                            /\ dimensions' = IF dimensions = << >>
                                             THEN << Len(features) >>
                                             ELSE dimensions
                            /\ embeddings' =
                                 FoldMorphemes(embeddings, morphemes, features)
  /\ UNCHANGED << words, sorted, mpc, segVars, accVars >>

\* After the loop: the early return when no word matched, else the listing.
MainFinish ==
  /\ mpc = "loop"
  /\ cursor = Len(words)
  /\ IF used_dictionary_entries = 0
     THEN mpc' = "exit" /\ UNCHANGED sorted
     ELSE /\ mpc' = "listed"
          /\ \E means \in { [ k \in DOMAIN embeddings |-> mean(embeddings[k]) ] } :
             \E order \in IterationOrders(DOMAIN embeddings) :
               sorted' = SortByKey([ i \in DOMAIN order |->
                                       << order[i], means[order[i]] >> ])
  /\ UNCHANGED << words, cursor, embeddings, used_dictionary_entries,
                  dimensions, segVars, accVars >>

MainNext == MainStart \/ MainWord \/ MainFinish

MainSpec == MainInit /\ [][MainNext]_vars

----------------------------------------------------------------------------
\* One accumulator under arbitrary calls of add and mean.

AccInit ==
  /\ \E d \in 0..MaxDim : acc = EmbeddingAccumulator_new(d)
  /\ added = << >>
  /\ last_mean = << >>
  /\ apc = "new"
  /\ SegIdle /\ MainIdle

AccAdd ==
  /\ apc # "idle"
  /\ Len(added) < MaxAdds
  /\ \E vector \in Vectors :
       /\ acc' = add(acc, vector)
       /\ added' = Append(added, vector)
  /\ last_mean' = << >>
  /\ apc' = "added"
  /\ UNCHANGED << segVars, mainVars >>

AccMean ==
  /\ apc # "idle"
  /\ last_mean' = << mean(acc) >>
  /\ apc' = "mean"
  /\ UNCHANGED << acc, added, segVars, mainVars >>

AccNext == AccAdd \/ AccMean

AccSpec == AccInit /\ [][AccNext]_vars

----------------------------------------------------------------------------
\* The three parts together.

Init == SegInit \/ MainInit \/ AccInit

Next == SegNext \/ MainNext \/ AccNext

Spec == Init /\ [][Next]_vars

----------------------------------------------------------------------------
\* Properties of the segmenter.

HasLetter(w) == \E i \in DOMAIN w : is_ascii_alphabetic(w[i])

RECURSIVE ConcatTexts(_)
ConcatTexts(ms) ==
  IF ms = << >> THEN << >> ELSE Head(ms).text \o ConcatTexts(Tail(ms))

\* The step-wise segmenter returns what the function applied in main returns.
SegAgreesWithFunction ==
  pc = "done" => segments = segment_into_morphemes(word)

\* C1: segment_into_morphemes returns an empty sequence exactly when the
\* word has no ASCII letter (its cleaned form is empty); otherwise it
\* returns at least one morpheme and at least one of them is a Root.
C1_EmptyOnlyForEmptyCleaned ==
  pc = "done" =>
    /\ (segments = << >>) <=> ~HasLetter(word)
    /\ (cleaned = << >>) <=> ~HasLetter(word)
    /\ HasLetter(word) =>
         /\ Len(segments) >= 1
         /\ \E i \in DOMAIN segments : segments[i].kind = "Root"

\* A word with letters and other characters has been segmented.
C1_Witness ==
  /\ pc = "done"
  /\ HasLetter(word)
  /\ \E i \in DOMAIN word : ~is_ascii_alphabetic(word[i])
  /\ segments # << >>

\* C2: the result is the Prefix morphemes in strip order, then the Root
\* morphemes in decomposition order, then the Suffix morphemes in reverse of
\* strip order, and the texts in emitted order concatenate to the cleaned
\* word.
C2_OrderAndTiling ==
  (pc = "done" /\ cleaned # << >>) =>
    LET np == Len(prefix_matches)
        nr == Len(roots)
        ns == Len(suffix_matches)
    IN  /\ Len(segments) = np + nr + ns
        /\ \A i \in 1..np :
             segments[i] = Morpheme("Prefix", prefix_matches[i])
        /\ \A i \in 1..nr : segments[np + i] = roots[i]
        /\ \A i \in 1..nr : roots[i].kind = "Root"
        /\ \A i \in 1..ns :
             segments[np + nr + i] = Morpheme("Suffix", suffix_matches[ns + 1 - i])
        /\ ConcatTexts(segments) = cleaned
        /\ Len(ConcatTexts(segments)) <= Len(cleaned)

\* A word with a prefix, a root and two different suffixes has been
\* segmented.
C2_Witness ==
  /\ pc = "done"
  /\ Len(prefix_matches) >= 1
  /\ Len(suffix_matches) >= 2
  /\ suffix_matches[1] # suffix_matches[2]
  /\ Len(roots) >= 1

\* C3: after every strip the remaining string is nonempty (an affix is
\* stripped only when strictly shorter than what remains), so the region
\* handed to root decomposition is nonempty and the roots emitted are those
\* of the decomposition, never the whole-word fallback.
C3_StripLeavesRemainder ==
  (pc \notin { "clean" } /\ cleaned # << >>) =>
    /\ working # << >>
    /\ ConcatTexts([ i \in DOMAIN prefix_matches |->
                       Morpheme("Prefix", prefix_matches[i]) ]) \o working = cleaned
    /\ pc \notin { "prefix" } =>
         /\ core # << >>
         /\ core \o ConcatTexts([ i \in DOMAIN suffix_matches |->
               Morpheme("Suffix", suffix_matches[Len(suffix_matches) + 1 - i]) ])
              = working
    /\ pc \in { "assemble", "done" } => roots # << >>
    /\ pc = "done" =>
         SubSeq(segments, Len(prefix_matches) + 1,
                Len(segments) - Len(suffix_matches)) = roots

\* A prefix was stripped, then a prefix equal to the whole remaining string
\* was matched and left in place, and the roots were decomposed from it.
C3_Witness ==
  /\ pc = "done"
  /\ Len(prefix_matches) >= 1
  /\ working \in Range(PREFIXES)
  /\ roots # << >>

MinOf(S) == CHOOSE i \in S : \A j \in S : i <= j

PrefixMatching(w) == { i \in DOMAIN PREFIXES : StartsWith(w, PREFIXES[i]) }

SuffixMatching(c) == { i \in DOMAIN SUFFIXES : EndsWith(c, SUFFIXES[i]) }

RootMatching(rem) == { i \in DOMAIN ROOT_PATTERNS : StartsWith(rem, ROOT_PATTERNS[i]) }

\* A prefix-loop step takes the first matching entry in table order when it
\* is strictly shorter than the working string, and leaves the loop when no
\* entry matches or the first matching entry is the whole working string.
PrefixStepFirstMatch ==
  LET M == PrefixMatching(working) IN
  IF M # {} /\ Len(PREFIXES[MinOf(M)]) < Len(working)
  THEN /\ prefix_matches' = Append(prefix_matches, PREFIXES[MinOf(M)])
       /\ working' = SubSeq(working, Len(PREFIXES[MinOf(M)]) + 1, Len(working))
       /\ pc' = "prefix"
  ELSE /\ prefix_matches' = prefix_matches
       /\ working' = working
       /\ pc' = "suffix"

SuffixStepFirstMatch ==
  LET M == SuffixMatching(core) IN
  IF M # {} /\ Len(SUFFIXES[MinOf(M)]) < Len(core)
  THEN /\ suffix_matches' = Append(suffix_matches, SUFFIXES[MinOf(M)])
       /\ core' = SubSeq(core, 1, Len(core) - Len(SUFFIXES[MinOf(M)]))
       /\ pc' = "suffix"
  ELSE /\ suffix_matches' = suffix_matches
       /\ core' = core
       /\ pc' = "roots"

\* C4, as amended: prefix stripping and suffix stripping each take the
\* first table entry (table order, not longest) that matches the remaining
\* string, and each stops exactly when no table entry matches or when that
\* first matching entry would consume everything remaining, also when a
\* later, shorter entry matches too.
C4_FirstMatchOrStop ==
  [][ /\ pc = "prefix" => PrefixStepFirstMatch
      /\ pc = "suffix" => SuffixStepFirstMatch ]_vars

\* Suffix stripping has stopped on a first match equal to the whole core
\* although a later table entry matches and is strictly shorter.
C4_Witness ==
  /\ pc = "done"
  /\ SuffixMatching(core) # {}
  /\ SUFFIXES[MinOf(SuffixMatching(core))] = core
  /\ \E i \in SuffixMatching(core) : Len(SUFFIXES[i]) < Len(core)

\* C4, as stated: each loop takes the first matching table entry, and as
\* long as some matching table entry is strictly shorter than the remaining
\* string, stripping continues.
C4_Original ==
  [][ /\ pc = "prefix" =>
           /\ prefix_matches' # prefix_matches =>
                prefix_matches' = Append(prefix_matches,
                                         PREFIXES[MinOf(PrefixMatching(working))])
           /\ (\E i \in PrefixMatching(working) : Len(PREFIXES[i]) < Len(working))
                => (pc' = "prefix" /\ Len(working') < Len(working))
      /\ pc = "suffix" =>
           /\ suffix_matches' # suffix_matches =>
                suffix_matches' = Append(suffix_matches,
                                         SUFFIXES[MinOf(SuffixMatching(core))])
           /\ (\E i \in SuffixMatching(core) : Len(SUFFIXES[i]) < Len(core))
                => (pc' = "suffix" /\ Len(core') < Len(core)) ]_vars

\* A step of the root loop on a nonempty remainder emits the first matching
\* pattern in table order, else a chunk of 4 characters and continues when
\* more than 4 remain, else the whole remainder as the last root.
RootStepAsSpecified ==
  LET M == RootMatching(remainder) IN
  IF remainder = << >>
  THEN roots' = roots /\ pc' = "assemble"
  ELSE IF M # {}
  THEN /\ roots' = Append(roots, Morpheme("Root", ROOT_PATTERNS[MinOf(M)]))
       /\ remainder' = SubSeq(remainder, Len(ROOT_PATTERNS[MinOf(M)]) + 1,
                              Len(remainder))
       /\ pc' = "roots"
  ELSE IF Len(remainder) > 4
  THEN /\ roots' = Append(roots, Morpheme("Root", SubSeq(remainder, 1, 4)))
       /\ remainder' = SubSeq(remainder, 5, Len(remainder))
       /\ pc' = "roots"
  ELSE /\ roots' = Append(roots, Morpheme("Root", remainder))
       /\ pc' = "assemble"

\* C8: for every nonempty core, decompose_root_segments emits Root
\* morphemes whose texts concatenate to the core, each one the first
\* matching pattern in table order, or the first 4 characters of an
\* unmatched remainder longer than 4 (the loop continuing), or the whole of
\* an unmatched remainder of at most 4 characters as the last root.
C8_RootDecomposition ==
  [][ pc = "roots" =>
        /\ RootStepAsSpecified
        /\ pc' = "assemble" =>
             /\ ConcatTexts(roots') = core
             /\ roots' = decompose_root_segments(core) ]_vars

\* The decomposition emitted a pattern, then a 4-character chunk of
\* unmatched material, then a short remainder.
C8_Witness ==
  /\ pc = "done"
  /\ Len(roots) >= 3
  /\ \E i \in 1..(Len(roots) - 1) :
       /\ roots[i].text \notin Range(ROOT_PATTERNS)
       /\ Len(roots[i].text) = 4
       /\ Len(roots[Len(roots)].text) < 4
  /\ \E i \in DOMAIN roots : roots[i].text \in Range(ROOT_PATTERNS)

\* The stage of the segmenter, decreasing along a run.
StageRank ==
  CASE pc = "clean"    -> 5
    [] pc = "prefix"   -> 4
    [] pc = "suffix"   -> 3
    [] pc = "roots"    -> 2
    [] pc = "assemble" -> 1
    [] OTHER           -> 0

\* The string the current loop still has to consume.
Remaining ==
  CASE pc = "prefix" -> Len(working)
    [] pc = "suffix" -> Len(core)
    [] pc = "roots"  -> Len(remainder)
    [] OTHER         -> 0

\* C10: segment_into_morphemes terminates: no zero-length pattern is
\* matched or emitted (every morpheme has nonempty text), and every step
\* either leaves its loop for a later stage or strictly shortens the string
\* its loop works on.
C10_Terminates ==
  /\ <>(pc = "done")
  /\ [][ /\ \/ StageRank' < StageRank
            \/ StageRank' = StageRank /\ Remaining' < Remaining
         /\ \A i \in DOMAIN prefix_matches' : prefix_matches'[i] # << >>
         /\ \A i \in DOMAIN suffix_matches' : suffix_matches'[i] # << >>
         /\ \A i \in DOMAIN roots' : roots'[i].text # << >>
         /\ \A i \in DOMAIN segments' : segments'[i].text # << >> ]_vars

\* A run finished after the prefix loop and the suffix loop each stripped
\* twice and the root loop emitted a root.
C10_Witness ==
  /\ pc = "done"
  /\ Len(prefix_matches) >= 2
  /\ Len(suffix_matches) >= 2
  /\ Len(roots) >= 1

----------------------------------------------------------------------------
\* Properties of the main loop and of the listing.

InLexicon(w) ==
  \E i \in DOMAIN DICTIONARY_ENTRIES : DICTIONARY_ENTRIES[i][1] = Canonical(w)

\* The morphemes of each input line, none for a line not in the lexicon.
MorphemesOfLine ==
  [ w \in OrchWords |->
      IF InLexicon(w) THEN segment_into_morphemes(Canonical(w)) ELSE << >> ]

\* The number of morpheme positions of the first n words that carry key k.
RECURSIVE Occurrences(_, _)
Occurrences(k, n) ==
  IF n = 0 THEN 0
  ELSE LET ms == MorphemesOfLine[words[n]] IN
       Cardinality({ p \in DOMAIN ms : MorphemeKeyFrom(ms[p]) = k })
         + Occurrences(k, n - 1)

KeysOfWords(n) ==
  UNION { { MorphemeKeyFrom(MorphemesOfLine[words[j]][p]) :
              p \in DOMAIN MorphemesOfLine[words[j]] } : j \in 1..n }

TableMatchesProcessedWords ==
  /\ DOMAIN embeddings = KeysOfWords(cursor)
  /\ \A k \in DOMAIN embeddings :
       embeddings[k].count = Occurrences(k, cursor)

\* C5: after the loop has processed any prefix of the word list, the table
\* holds exactly the keys of the morphemes of the processed words that are
\* in the lexicon, each with a count equal to the number of morpheme
\* positions carrying the key; a word not in the lexicon changes nothing
\* and the loop goes on to the next word; no count decreases and no key is
\* removed.
C5_TableCountsOccurrences ==
  [][ /\ TableMatchesProcessedWords'
      /\ DOMAIN embeddings \subseteq DOMAIN embeddings'
      /\ \A k \in DOMAIN embeddings : embeddings'[k].count >= embeddings[k].count
      /\ (mpc = "loop" /\ cursor < Len(words) /\ ~InLexicon(words[cursor + 1]))
           => (embeddings' = embeddings /\ cursor' = cursor + 1 /\ mpc' = "loop")
    ]_vars

\* The loop has passed a word that is not in the lexicon and then the same
\* lexicon word twice.
C5_Witness ==
  /\ mpc = "loop"
  /\ cursor = 3
  /\ ~InLexicon(words[1])
  /\ InLexicon(words[2])
  /\ Canonical(words[3]) = Canonical(words[2])
  /\ \E k \in DOMAIN embeddings : embeddings[k].count = 2

\* a is a proper prefix of b, or smaller at the first position they differ.
LexLess(a, b) ==
  \E i \in 1..(Len(b)) :
    /\ i <= Len(a) + 1
    /\ \A j \in 1..(i - 1) : a[j] = b[j]
    /\ \/ i = Len(a) + 1
       \/ IndexOf(LowerLetters, a[i]) < IndexOf(LowerLetters, b[i])

KindBefore == << "Prefix", "Root", "Suffix" >>

\* The MorphemeKey order: kind first (Prefix < Root < Suffix), then text.
KeyLess(a, b) ==
  \/ IndexOf(KindBefore, a.kind) < IndexOf(KindBefore, b.kind)
  \/ a.kind = b.kind /\ LexLess(a.text, b.text)

\* C7: the listing holds each key of the table exactly once, with the mean
\* of its accumulator, and is strictly increasing in the MorphemeKey order,
\* whatever order the hash map yields its entries in.
C7_ListingSortedByKey ==
  mpc = "listed" =>
    /\ Len(sorted) = Cardinality(DOMAIN embeddings)
    /\ { sorted[i][1] : i \in DOMAIN sorted } = DOMAIN embeddings
    /\ \A i \in DOMAIN sorted : sorted[i][2] = mean(embeddings[sorted[i][1]])
    /\ \A i, j \in DOMAIN sorted : i < j => KeyLess(sorted[i][1], sorted[j][1])

\* A listing of keys of all three kinds, with two roots that differ only in
\* text.
C7_Witness ==
  /\ mpc = "listed"
  /\ \A kind \in MorphemeKind : \E i \in DOMAIN sorted : sorted[i][1].kind = kind
  /\ Cardinality({ i \in DOMAIN sorted : sorted[i][1].kind = "Root" }) >= 3

----------------------------------------------------------------------------
\* Properties of one accumulator.

EqualLengths(vs) == \A i, j \in DOMAIN vs : Len(vs[i]) = Len(vs[j])

\* Component i of v1 + v2 + ... + vn, the f32 additions taken left to right.
RECURSIVE SumOf(_, _)
SumOf(vs, i) ==
  IF Len(vs) = 1 THEN vs[1][i]
  ELSE f32_add(SumOf(SubSeq(vs, 1, Len(vs) - 1), i), vs[Len(vs)][i])

\* C6: after n >= 1 vectors of equal length have been added, mean() is the
\* element-wise sum of the added vectors divided by n, sum and quotient
\* being those of f32 arithmetic (after one add the added vector itself,
\* after two (v1+v2)/2), and mean() leaves sum and count as the adds left
\* them.
C6_MeanIsSumOverCount ==
  (added # << >> /\ EqualLengths(added)) =>
    LET n == Len(added)
        d == Len(added[1])
    IN  /\ acc.count = n
        /\ Len(acc.sum) = d
        /\ \A i \in 1..d : acc.sum[i] = SumOf(added, i)
        /\ last_mean # << >> =>
             /\ Len(last_mean[1]) = d
             /\ \A i \in 1..d :
                  last_mean[1][i] = f32_div(SumOf(added, i), f32_from_usize(n))
             /\ n = 1 => last_mean[1] = added[1]
             /\ n = 2 => \A i \in 1..d :
                  last_mean[1][i] =
                    f32_div(f32_add(added[1][i], added[2][i]), << 1, 1 >>)

\* mean() was called after two different vectors of dimension two were
\* added, and its first component is the f32 value of (1 + 0.33333334) / 2,
\* which is 11184811 / 2^24.
C6_Witness ==
  /\ Len(added) = 2
  /\ Len(added[1]) = 2 /\ Len(added[2]) = 2
  /\ added[1][1] # added[2][1]
  /\ last_mean # << >>
  /\ last_mean[1][1] = << 11184811, -24 >>

\* C9, as stated: add with a vector whose length differs from that of sum
\* brings sum to the vector's length, keeps every component accumulated
\* before the call (sum never gets shorter), adds element-wise, and
\* increments count by one.
C9_Original ==
  [][ added' # added =>
        LET vector == added'[Len(added')] IN
        /\ acc'.count = acc.count + 1
        /\ Len(vector) # Len(acc.sum) =>
             /\ Len(acc'.sum) = Len(vector)
             /\ Len(acc'.sum) >= Len(acc.sum)
             /\ \A i \in DOMAIN acc.sum :
                  /\ i \in DOMAIN acc'.sum
                  /\ acc'.sum[i] = f32_add(acc.sum[i],
                                          IF i <= Len(vector) THEN vector[i] ELSE Zero)
    ]_vars

=============================================================================
